---- MODULE Spec2Model ----
(***************************************************************************)
(* Model of camera.py, the Raspberry Pi photo booth: module-scope hardware *)
(* setup, the main() polling loop, one capture session (prepare, capture   *)
(* loop, playback) and the teardown of the __main__ block.                 *)
(*                                                                         *)
(* Strings are sequences of tokens; the characters ' ' and ':' are always  *)
(* tokens of their own, so str.replace on them is modelled token by token. *)
(* Time is counted in whole seconds; a sleep of d seconds advances the     *)
(* clock by d (the 0.1 s flash by 0), a poll cycle by 0 or 1.              *)
(***************************************************************************)
EXTENDS Integers, Sequences, FiniteSets, TLC

\* ---------------------------------------------------------------- bounds
MaxPics == 3        \* configured total_pics ranges over 1..MaxPics
MaxSessions == 2    \* sessions accepted in one run
MaxPolls == 4       \* None polls in one Idle period
MaxTicks == 1       \* seconds that pass inside poll cycles in one run
MaxSerial == 1      \* bytes waiting in the serial input buffer
MaxNamerClock == 70 \* seconds after StartClock at which a base name is derived
StartClock == 43200 \* wall clock at program start, seconds since day 1, 00:00:00

\* ------------------------------------------------------ program constants
DefaultPrepDelay == 10
FastPrepDelay == 1
FastTotalPics == 1
blink_speed == 2
AllDoneDuration == 20
IntroLayer1 == 3
IntroLayer2 == 4
DefaultLayer == 3
OpaqueAlpha == 255

None == "None"
NoOverlay == -1     \* overlay_image's "there is no overlay" return value

VARIABLES
    pc,                         \* position in the program
    TESTMODE_AUTOPRESS_BUTTON,  \* debug flag, fixed for a run
    TESTMODE_FAST,              \* debug flag, fixed for a run
    total_pics, prep_delay,     \* configuration after the TESTMODE_FAST override
    REAL_PATH,                  \* directory of the program file, line 60
    clock,                      \* datetime.datetime.now(), in seconds
    ticks,                      \* seconds spent inside poll cycles so far
    gpio, camera_dev, serial_port, \* "unset" | "open" | "released"
    preview,                    \* camera preview running
    camera_closes, gpio_cleanups, \* number of camera.close() / GPIO.cleanup() calls
    ser_in_waiting,             \* bytes in the serial input buffer
    overlays, next_id,          \* live overlays of the camera; next handle
    overlay_1, overlay_2,       \* main()'s intro overlay handles
    prev_overlay, this_overlay, \* playback_screen()'s handles
    returned,                   \* what the last overlay_image call returned
    remove_ok,                  \* every camera.remove_overlay so far named a live overlay
    i,                          \* blink counter of main()
    is_pressed, exit_button,    \* results of the last poll cycle
    exit_edge,                  \* the exit button went down since the last wait on it
    none_polls,                 \* None polls since this Idle period was entered
    filename_prefix, photo_number, counter, annotate_text,
    dirs, files,                \* directories and files on disk
    captured,                   \* paths passed to camera.capture in this session
    sessions,                   \* base names of the sessions of this run, in order
    exit_cause                  \* why main() was left: "exit_button", "autopress",
                                \* "interrupt", "failure", "oserror"

hw == <<gpio, camera_dev, serial_port, preview, camera_closes, gpio_cleanups>>
cfg == <<TESTMODE_AUTOPRESS_BUTTON, TESTMODE_FAST, total_pics, prep_delay,
         REAL_PATH>>
ovl == <<overlays, next_id, overlay_1, overlay_2, prev_overlay, this_overlay,
         returned, remove_ok>>
idle == <<i, is_pressed, exit_button, exit_edge, none_polls>>
sess == <<filename_prefix, photo_number, counter, annotate_text, dirs, files,
          captured, sessions>>
vars == <<pc, cfg, clock, ticks, hw, ser_in_waiting, ovl, idle, sess, exit_cause>>

\* ------------------------------------------------------------- strings
Digits == <<"0", "1", "2", "3", "4", "5", "6", "7", "8", "9">>

RECURSIVE str(_)
\* str(n) for a natural number: its decimal digits
str(n) == IF n < 10 THEN <<Digits[n + 1]>>
          ELSE str(n \div 10) \o <<Digits[(n % 10) + 1]>>

\* two-digit, zero-padded field of a timestamp
Pad2(n) == <<Digits[(n \div 10) + 1], Digits[(n % 10) + 1]>>

\* s.replace(old, new) for a one-character old
Replace(s, old, new) == [k \in 1..Len(s) |-> IF s[k] = old THEN new ELSE s[k]]

RECURSIVE SplitFirst(_, _)
\* s.split(sep)[0]: the part of s before the first sep
SplitFirst(s, sep) ==
    IF s = <<>> \/ Head(s) = sep THEN <<>>
    ELSE <<Head(s)>> \o SplitFirst(Tail(s), sep)

\* str(datetime.datetime.now()): "2017-12-DD HH:MM:SS.ffffff"
StrNow(t) ==
    <<"2017-12-">> \o Pad2(1 + (t \div 86400)) \o <<" ">>
      \o Pad2((t % 86400) \div 3600) \o <<":">>
      \o Pad2((t % 3600) \div 60) \o <<":">>
      \o Pad2(t % 60) \o <<".", "000001">>

\* directories the program may be installed in
Locations == {<<"/home/pi/booth">>, <<"/home/pi/photo", " ", "booth">>,
              <<"/media/usb", ":", "1/booth">>}

\* ------------------------------------------------------- helper functions
\* variant: the base name stops at the minute
get_base_filename_to_the_minute(t) ==
    LET stamp == SplitFirst(StrNow(t), ".")
        base_filename == REAL_PATH \o <<"/photos/">> \o SubSeq(stamp, 1, Len(stamp) - 3)
    IN  Replace(Replace(base_filename, " ", "_"), ":", "-")

\* lines 84-87, for the clock value t
get_base_filename_for_images(t) ==
    LET base_filename == REAL_PATH \o <<"/photos/">> \o SplitFirst(StrNow(t), ".")
    IN  Replace(Replace(base_filename, " ", "_"), ":", "-")

\* lines 161 and 199
PhotoFilename(prefix, n) ==
    prefix \o <<"/">> \o str(n) \o <<"of">> \o str(total_pics) \o <<".jpg">>

Asset(name) == REAL_PATH \o <<name>>

\* camera.add_overlay(..) followed by o_id.layer = layer: the overlays afterwards
add_overlay(image_path, layer) ==
    overlays \cup {[id |-> next_id, image |-> image_path, layer |-> layer,
                    alpha |-> OpaqueAlpha]}

\* camera.remove_overlay(o_id): the overlays afterwards
camera_remove_overlay(o_id) == {o \in overlays : o.id # o_id}

\* camera.remove_overlay(o_id) is asked to remove a live overlay, as all before
camera_remove_ok(o_id) == remove_ok /\ \E o \in overlays : o.id = o_id

\* remove_overlay(overlay_id), lines 89-94: the requests sent on so far were good
remove_overlay_ok(overlay_id) ==
    IF overlay_id # NoOverlay THEN camera_remove_ok(overlay_id) ELSE remove_ok

\* remove_overlay(overlay_id), lines 89-94: the overlays afterwards
remove_overlay(overlay_id) ==
    IF overlay_id # NoOverlay THEN camera_remove_overlay(overlay_id) ELSE overlays

\* overlay_2.alpha = a
set_alpha(o_id, a) ==
    {IF o.id = o_id THEN [o EXCEPT !.alpha = a] ELSE o : o \in overlays}

\* variant: fast mode takes the two photos the comment of line 21 speaks of
ConfiguredTotalPicsTwo(fast, n) == IF fast THEN 2 ELSE n

\* the configuration block, lines 28-37
ConfiguredTotalPics(fast, n) == IF fast THEN FastTotalPics ELSE n
ConfiguredPrepDelay(fast) == IF fast THEN FastPrepDelay ELSE DefaultPrepDelay

\* ------------------------------------------------------------------ Init
Init ==
    /\ pc = "gpio_setup"
    /\ TESTMODE_AUTOPRESS_BUTTON \in BOOLEAN
    /\ TESTMODE_FAST \in BOOLEAN
    /\ \E n \in 1..MaxPics : total_pics = ConfiguredTotalPics(TESTMODE_FAST, n)
    /\ prep_delay = ConfiguredPrepDelay(TESTMODE_FAST)
    /\ REAL_PATH = <<"/home/pi/booth">>
    /\ clock = StartClock
    /\ ticks = 0
    /\ gpio = "unset" /\ camera_dev = "unset" /\ serial_port = "unset"
    /\ preview = FALSE
    /\ camera_closes = 0 /\ gpio_cleanups = 0
    /\ ser_in_waiting = 0
    /\ overlays = {} /\ next_id = 1
    /\ overlay_1 = NoOverlay /\ overlay_2 = NoOverlay
    /\ prev_overlay = NoOverlay /\ this_overlay = NoOverlay
    /\ returned = NoOverlay /\ remove_ok = TRUE
    /\ i = 0 /\ is_pressed = None /\ exit_button = None /\ none_polls = 0
    /\ exit_edge = FALSE
    /\ filename_prefix = <<>> /\ photo_number = 0 /\ counter = 0
    /\ annotate_text = <<>>
    /\ dirs = {} /\ files = {} /\ captured = <<>> /\ sessions = <<>>
    /\ exit_cause = None

\* positions inside main()
SessionPcs == {"get_base", "rm_overlay_2", "rm_overlay_1", "prep_show",
               "prep_hide", "makedirs", "countdown", "clear_text", "capture",
               "flash_show", "flash_hide", "processing", "frame_show",
               "frame_swap", "rm_last", "done_show", "done_hide", "test_exit",
               "again_1", "again_2", "ser_reset"}
IdlePcs == {"wait_edge", "dispatch"}
MainPcs == {"start_preview", "intro_1", "intro_2"} \cup IdlePcs \cup SessionPcs

\* ------------------------------------------------ module-scope setup, 43-55
GpioSetup ==
    /\ pc = "gpio_setup"
    /\ gpio' = "open"
    /\ pc' = "camera_setup"
    /\ UNCHANGED <<cfg, clock, ticks, camera_dev, serial_port, preview,
                   camera_closes, gpio_cleanups, ser_in_waiting, ovl, idle, sess,
                   exit_cause>>

CameraSetup ==
    /\ pc = "camera_setup"
    /\ camera_dev' = "open"
    /\ pc' = "serial_setup"
    /\ UNCHANGED <<cfg, clock, ticks, gpio, serial_port, preview,
                   camera_closes, gpio_cleanups, ser_in_waiting, ovl, idle, sess,
                   exit_cause>>

SerialSetup ==
    /\ pc = "serial_setup"
    /\ serial_port' = "open"
    /\ pc' = "start_preview"
    /\ UNCHANGED <<cfg, clock, ticks, gpio, camera_dev, preview,
                   camera_closes, gpio_cleanups, ser_in_waiting, ovl, idle, sess,
                   exit_cause>>

\* picamera.PiCamera() or serial.Serial(..) raises (or the user interrupts) at
\* module scope, outside the try block of line 290: the process ends there.
SetupFail ==
    /\ pc \in {"camera_setup", "serial_setup"}
    /\ pc' = "aborted"
    /\ exit_cause' = "failure"
    /\ UNCHANGED <<cfg, clock, ticks, hw, ser_in_waiting, ovl, idle, sess>>

\* somebody pushes the exit button
PressExit ==
    /\ gpio = "open"
    /\ pc \in MainPcs
    /\ ~exit_edge
    /\ exit_edge' = TRUE
    /\ UNCHANGED <<pc, cfg, clock, ticks, hw, ser_in_waiting, ovl, i, is_pressed,
                   exit_button, none_polls, sess, exit_cause>>

\* bytes arrive on the serial line
SerialArrive ==
    /\ serial_port = "open"
    /\ pc \notin {"done", "aborted"}
    /\ ser_in_waiting < MaxSerial
    /\ ser_in_waiting' = ser_in_waiting + 1
    /\ UNCHANGED <<pc, cfg, clock, ticks, hw, ovl, idle, sess, exit_cause>>

\* ------------------------------------------------------- main(), 219-230
StartPreview ==
    /\ pc = "start_preview"
    /\ preview' = TRUE
    /\ pc' = "intro_1"
    /\ UNCHANGED <<cfg, clock, ticks, gpio, camera_dev, serial_port,
                   camera_closes, gpio_cleanups, ser_in_waiting, ovl, idle, sess,
                   exit_cause>>

\* overlay_1 = overlay_image(intro_image_1, 0, 3), line 229
ShowIntro1 ==
    /\ pc = "intro_1"
    /\ overlays' = add_overlay(Asset("/assets/intro_1.png"), IntroLayer1)
    /\ overlay_1' = next_id
    /\ next_id' = next_id + 1
    /\ pc' = "intro_2"
    /\ UNCHANGED <<cfg, clock, ticks, hw, ser_in_waiting, overlay_2, prev_overlay,
                   this_overlay, idle, sess, exit_cause>>
    /\ returned' = next_id
    /\ UNCHANGED remove_ok

\* overlay_2 = overlay_image(intro_image_2, 0, 4); i = 0, lines 230-234
ShowIntro2 ==
    /\ pc = "intro_2"
    /\ overlays' = add_overlay(Asset("/assets/intro_2.png"), IntroLayer2)
    /\ overlay_2' = next_id
    /\ next_id' = next_id + 1
    /\ i' = 0
    /\ none_polls' = 0
    /\ pc' = "wait_edge"
    /\ UNCHANGED <<cfg, clock, ticks, hw, ser_in_waiting, overlay_1, prev_overlay,
                   this_overlay, is_pressed, exit_button, exit_edge, sess,
                   exit_cause>>
    /\ returned' = next_id
    /\ UNCHANGED remove_ok

\* ------------------------------------------- the poll cycle, lines 235-264
\* GPIO.wait_for_edge on both buttons, lines 238-239: each returns the channel
\* on a falling edge and None on timeout; the cycle takes up to half a second.
\* An edge from before the wait is reported or lost, one seen during the wait
\* is reported.
WaitForEdges ==
    /\ pc = "wait_edge"
    /\ \E p \in {None, "channel"} : is_pressed' = p
    /\ \E e \in {None, "channel"} : exit_button' = e
    /\ exit_edge' = FALSE
    /\ \E d \in {0, 1} :
          /\ d = 1 => ticks < MaxTicks
          /\ clock' = clock + d
          /\ ticks' = ticks + d
    /\ pc' = "dispatch"
    /\ UNCHANGED <<cfg, hw, ser_in_waiting, ovl, i, none_polls, sess, exit_cause>>

\* lines 244-250: is_pressed after the serial and auto-press checks
Pressed == IF ser_in_waiting > 0 \/ TESTMODE_AUTOPRESS_BUTTON THEN "True"
           ELSE is_pressed

\* variant: the counter is never set back
BlinkCounterNoReset == i + 1

\* lines 256-261: the blink counter and overlay_2's alpha after a None poll
BlinkCounter == IF i + 1 = 2 * blink_speed THEN 0 ELSE i + 1
BlinkOverlays ==
    IF i + 1 = blink_speed THEN set_alpha(overlay_2, OpaqueAlpha)
    ELSE IF i + 1 = 2 * blink_speed THEN set_alpha(overlay_2, 0)
    ELSE overlays

\* line 241-242: the exit button's edge ends main()
DispatchExit ==
    /\ exit_button # None
    /\ pc' = "finally"
    /\ exit_cause' = "exit_button"
    /\ UNCHANGED <<cfg, clock, ticks, hw, ser_in_waiting, ovl, idle, sess>>

\* lines 244-264: nothing pressed, blink and poll again
DispatchNone ==
    /\ exit_button = None
    /\ Pressed = None
    /\ none_polls < MaxPolls
    /\ i' = BlinkCounter
    /\ overlays' = BlinkOverlays
    /\ none_polls' = none_polls + 1
    /\ pc' = "wait_edge"
    /\ UNCHANGED <<cfg, clock, ticks, hw, ser_in_waiting, next_id, overlay_1,
                   overlay_2, prev_overlay, this_overlay, is_pressed, exit_button,
                   exit_edge, sess, exit_cause>>
    /\ UNCHANGED <<returned, remove_ok>>

\* variant: the blink step of lines 256-261 also runs when a press was seen
AcceptCaptureAfterBlink ==
    /\ Pressed # None
    /\ Len(sessions) < MaxSessions
    /\ is_pressed' = Pressed
    /\ ser_in_waiting' = 0
    /\ i' = BlinkCounter
    /\ overlays' = BlinkOverlays
    /\ pc' = "get_base"
    /\ UNCHANGED <<cfg, clock, ticks, hw, next_id, overlay_1, overlay_2,
                   prev_overlay, this_overlay, returned, remove_ok, exit_button,
                   exit_edge, none_polls, sess, exit_cause>>

\* lines 244-253 and 266: a press, a serial byte or the auto-press flag
AcceptCapture ==
    /\ Pressed # None
    /\ Len(sessions) < MaxSessions
    /\ is_pressed' = Pressed
    /\ ser_in_waiting' = 0
    /\ pc' = "get_base"
    /\ UNCHANGED <<cfg, clock, ticks, hw, ovl, i, exit_button, exit_edge,
                   none_polls, sess, exit_cause>>

DispatchCapture ==
    /\ exit_button = None
    /\ AcceptCapture

\* variant: the capture conditions are looked at before the exit button
DispatchCaptureFirst ==
    /\ pc = "dispatch"
    /\ \/ AcceptCapture
       \/ Pressed = None /\ DispatchExit
       \/ DispatchNone

\* lines 241-264, one pass of the loop body after the two waits
Dispatch ==
    /\ pc = "dispatch"
    /\ \/ DispatchExit
       \/ DispatchNone
       \/ DispatchCapture

\* ------------------------------------------- a session, lines 266-287
\* filename_prefix = get_base_filename_for_images(), line 267
GetBase ==
    /\ pc = "get_base"
    /\ filename_prefix' = get_base_filename_for_images(clock)
    /\ sessions' = Append(sessions, filename_prefix')
    /\ captured' = <<>>
    /\ pc' = "rm_overlay_2"
    /\ UNCHANGED <<cfg, clock, ticks, hw, ser_in_waiting, ovl, idle, photo_number,
                   counter, annotate_text, dirs, files, exit_cause>>

\* remove_overlay(overlay_2), line 269
RemoveIntro2 ==
    /\ pc = "rm_overlay_2"
    /\ overlays' = remove_overlay(overlay_2)
    /\ pc' = "rm_overlay_1"
    /\ UNCHANGED <<cfg, clock, ticks, hw, ser_in_waiting, next_id, overlay_1,
                   overlay_2, prev_overlay, this_overlay, idle, sess, exit_cause>>
    /\ remove_ok' = remove_overlay_ok(overlay_2)
    /\ UNCHANGED returned

\* variant: line 270 names overlay_2 a second time
RemoveIntro2Again ==
    /\ pc = "rm_overlay_1"
    /\ overlays' = remove_overlay(overlay_2)
    /\ pc' = "prep_show"
    /\ UNCHANGED <<cfg, clock, ticks, hw, ser_in_waiting, next_id, overlay_1,
                   overlay_2, prev_overlay, this_overlay, idle, sess, exit_cause>>
    /\ remove_ok' = remove_overlay_ok(overlay_2)
    /\ UNCHANGED returned

\* remove_overlay(overlay_1), line 270
RemoveIntro1 ==
    /\ pc = "rm_overlay_1"
    /\ overlays' = remove_overlay(overlay_1)
    /\ pc' = "prep_show"
    /\ UNCHANGED <<cfg, clock, ticks, hw, ser_in_waiting, next_id, overlay_1,
                   overlay_2, prev_overlay, this_overlay, idle, sess, exit_cause>>
    /\ remove_ok' = remove_overlay_ok(overlay_1)
    /\ UNCHANGED returned

\* overlay_image(image_path, duration > 0): the overlay is added (lines 111-132)
ShowTimed(at, image_path, then) ==
    /\ pc = at
    /\ overlays' = add_overlay(image_path, DefaultLayer)
    /\ next_id' = next_id + 1
    /\ pc' = then
    /\ UNCHANGED <<cfg, clock, ticks, hw, ser_in_waiting, overlay_1, overlay_2,
                   prev_overlay, this_overlay, idle, sess, exit_cause>>
    /\ UNCHANGED <<returned, remove_ok>>

\* variant: the timed overlay is removed but its handle is returned all the same
HideTimedReturnsHandle(at, duration, then) ==
    /\ pc = at
    /\ clock' = clock + duration
    /\ overlays' = camera_remove_overlay(next_id - 1)
    /\ pc' = then
    /\ UNCHANGED <<cfg, ticks, hw, ser_in_waiting, next_id, overlay_1, overlay_2,
                   prev_overlay, this_overlay, idle, exit_cause>>
    /\ remove_ok' = camera_remove_ok(next_id - 1)
    /\ returned' = next_id - 1

\* overlay_image(image_path, duration > 0): sleep(duration), then the overlay
\* just added is removed and -1 returned (lines 134-137)
HideTimed(at, duration, then) ==
    /\ pc = at
    /\ clock' = clock + duration
    /\ overlays' = camera_remove_overlay(next_id - 1)
    /\ pc' = then
    /\ UNCHANGED <<cfg, ticks, hw, ser_in_waiting, next_id, overlay_1, overlay_2,
                   prev_overlay, this_overlay, idle, exit_cause>>
    /\ remove_ok' = camera_remove_ok(next_id - 1)
    /\ returned' = NoOverlay

\* prep_for_photo_screen(1), lines 151-152 and 272
PrepShow == ShowTimed("prep_show", Asset("/assets/get_ready.png"), "prep_hide")

\* variant: the photo counter goes on from where the last loop left it
FirstPhotoCarriedOn == photo_number + 1
\* the first photo_number of the loop of line 273
FirstPhoto == 1
\* variant: range(1, total_pics), one pass short
LastPhotoShort == total_pics - 1
\* the last photo_number of the loops of lines 198 and 273
LastPhoto == total_pics

PrepHide ==
    /\ HideTimed("prep_hide", prep_delay, "makedirs")
    /\ photo_number' = FirstPhoto
    /\ UNCHANGED <<filename_prefix, counter, annotate_text, dirs, files, captured,
                   sessions>>

\* taking_photo, lines 160-168: os.makedirs(dirname), EEXIST ignored
Makedirs ==
    /\ pc = "makedirs"
    /\ dirs' = dirs \cup {filename_prefix}
    /\ counter' = 3
    /\ pc' = "countdown"
    /\ UNCHANGED <<cfg, clock, ticks, hw, ser_in_waiting, ovl, idle,
                   filename_prefix, photo_number, annotate_text, files, captured,
                   sessions, exit_cause>>

\* variant: except OSError: pass, every error of os.makedirs is ignored
MakedirsErrorIgnored ==
    /\ pc = "makedirs"
    /\ counter' = 3
    /\ pc' = "countdown"
    /\ UNCHANGED <<cfg, clock, ticks, hw, ser_in_waiting, ovl, idle,
                   filename_prefix, photo_number, annotate_text, dirs, files,
                   captured, sessions, exit_cause>>

\* taking_photo, lines 164-168: os.makedirs fails with an errno other than
\* EEXIST; the OSError is raised again and leaves main()
MakedirsError ==
    /\ pc = "makedirs"
    /\ pc' = "finally"
    /\ exit_cause' = "oserror"
    /\ UNCHANGED <<cfg, clock, ticks, hw, ser_in_waiting, ovl, idle, sess>>

\* one pass of the countdown loop, lines 171-173
Countdown ==
    /\ pc = "countdown"
    /\ annotate_text' = str(counter)
    /\ clock' = clock + 1
    /\ counter' = counter - 1
    /\ pc' = IF counter > 1 THEN "countdown" ELSE "clear_text"
    /\ UNCHANGED <<cfg, ticks, hw, ser_in_waiting, ovl, idle, filename_prefix,
                   photo_number, dirs, files, captured, sessions, exit_cause>>

\* variant: the last countdown digit is left on the picture
ClearTextKept ==
    /\ pc = "clear_text"
    /\ pc' = "capture"
    /\ UNCHANGED <<cfg, clock, ticks, hw, ser_in_waiting, ovl, idle,
                   filename_prefix, photo_number, counter, annotate_text, dirs,
                   files, captured, sessions, exit_cause>>

\* camera.annotate_text = '', line 176
ClearText ==
    /\ pc = "clear_text"
    /\ annotate_text' = <<>>
    /\ pc' = "capture"
    /\ UNCHANGED <<cfg, clock, ticks, hw, ser_in_waiting, ovl, idle,
                   filename_prefix, photo_number, counter, dirs, files, captured,
                   sessions, exit_cause>>

\* camera.capture(filename), line 177
Capture ==
    /\ pc = "capture"
    /\ files' = files \cup {PhotoFilename(filename_prefix, photo_number)}
    /\ captured' = Append(captured, PhotoFilename(filename_prefix, photo_number))
    /\ pc' = "flash_show"
    /\ UNCHANGED <<cfg, clock, ticks, hw, ser_in_waiting, ovl, idle,
                   filename_prefix, photo_number, counter, annotate_text, dirs,
                   sessions, exit_cause>>

\* overlay_image(REAL_PATH + "/assets/white.png", 0.1), line 180
FlashShow == ShowTimed("flash_show", Asset("/assets/white.png"), "flash_hide")

\* the flash is removed; next pass of the loop of line 273, or playback
FlashHide ==
    /\ \/ /\ photo_number < LastPhoto
          /\ HideTimed("flash_hide", 0, "makedirs")
          /\ photo_number' = photo_number + 1
       \/ /\ photo_number >= LastPhoto
          /\ HideTimed("flash_hide", 0, "processing")
          /\ photo_number' = photo_number
    /\ UNCHANGED <<filename_prefix, counter, annotate_text, dirs, files, captured,
                   sessions>>

\* ------------------------------------------ playback_screen, lines 185-211
\* Python truth of a handle: an overlay object and -1 are true, 0 and False not
Truthy(h) == h # 0

\* variant: the commented-out lines 193 and 197, a timed processing overlay
\* and prev_overlay = False
ProcessingShowTimed ==
    /\ pc = "processing"
    /\ overlays' = overlays
    /\ clock' = clock + 2
    /\ prev_overlay' = 0
    /\ next_id' = next_id + 1
    /\ photo_number' = FirstPhoto
    /\ pc' = "frame_show"
    /\ UNCHANGED <<cfg, ticks, hw, ser_in_waiting, overlay_1, overlay_2,
                   this_overlay, idle, filename_prefix, counter, annotate_text,
                   dirs, files, captured, sessions, exit_cause>>
    /\ returned' = NoOverlay
    /\ UNCHANGED remove_ok

\* prev_overlay = overlay_image(processing_image), line 194
ProcessingShow ==
    /\ pc = "processing"
    /\ overlays' = add_overlay(Asset("/assets/processing.png"), DefaultLayer)
    /\ prev_overlay' = next_id
    /\ next_id' = next_id + 1
    /\ photo_number' = FirstPhoto
    /\ pc' = "frame_show"
    /\ UNCHANGED <<cfg, clock, ticks, hw, ser_in_waiting, overlay_1, overlay_2,
                   this_overlay, idle, filename_prefix, counter, annotate_text,
                   dirs, files, captured, sessions, exit_cause>>
    /\ returned' = next_id
    /\ UNCHANGED remove_ok

\* variant: playback builds the name the docstring of line 82 gives
FrameShowDocstringName ==
    /\ pc = "frame_show"
    /\ overlays' = add_overlay(filename_prefix \o <<"_">> \o str(photo_number)
                                 \o <<"of">> \o str(total_pics) \o <<".png">>,
                               3 + total_pics)
    /\ this_overlay' = next_id
    /\ next_id' = next_id + 1
    /\ pc' = "frame_swap"
    /\ UNCHANGED <<cfg, clock, ticks, hw, ser_in_waiting, overlay_1, overlay_2,
                   prev_overlay, idle, sess, exit_cause>>
    /\ returned' = next_id
    /\ UNCHANGED remove_ok

\* this_overlay = overlay_image(filename, False, 3+total_pics), lines 199-200
FrameShow ==
    /\ pc = "frame_show"
    /\ overlays' = add_overlay(PhotoFilename(filename_prefix, photo_number),
                               3 + total_pics)
    /\ this_overlay' = next_id
    /\ next_id' = next_id + 1
    /\ pc' = "frame_swap"
    /\ UNCHANGED <<cfg, clock, ticks, hw, ser_in_waiting, overlay_1, overlay_2,
                   prev_overlay, idle, sess, exit_cause>>
    /\ returned' = next_id
    /\ UNCHANGED remove_ok

\* variant: the previous overlay is left on screen
FrameSwapKeepsPrev ==
    /\ pc = "frame_swap"
    /\ clock' = clock + 1
    /\ prev_overlay' = this_overlay
    /\ IF photo_number < LastPhoto
          THEN photo_number' = photo_number + 1 /\ pc' = "frame_show"
          ELSE photo_number' = photo_number /\ pc' = "rm_last"
    /\ UNCHANGED <<cfg, ticks, hw, ser_in_waiting, overlays, next_id, overlay_1,
                   overlay_2, this_overlay, idle, filename_prefix, counter,
                   annotate_text, dirs, files, captured, sessions, exit_cause>>
    /\ UNCHANGED <<returned, remove_ok>>

\* lines 202-205: the previous overlay is removed, sleep(1), next pass or line 206
FrameSwap ==
    /\ pc = "frame_swap"
    /\ overlays' = IF Truthy(prev_overlay) THEN remove_overlay(prev_overlay)
                   ELSE overlays
    /\ clock' = clock + 1
    /\ prev_overlay' = this_overlay
    /\ IF photo_number < LastPhoto
          THEN photo_number' = photo_number + 1 /\ pc' = "frame_show"
          ELSE photo_number' = photo_number /\ pc' = "rm_last"
    /\ UNCHANGED <<cfg, ticks, hw, ser_in_waiting, next_id, overlay_1, overlay_2,
                   this_overlay, idle, filename_prefix, counter, annotate_text,
                   dirs, files, captured, sessions, exit_cause>>
    /\ remove_ok' = IF Truthy(prev_overlay) THEN remove_overlay_ok(prev_overlay)
                    ELSE remove_ok
    /\ UNCHANGED returned

\* variant: line 206 is missing, the last frame stays on
RemoveLastSkipped ==
    /\ pc = "rm_last"
    /\ pc' = "done_show"
    /\ UNCHANGED <<cfg, clock, ticks, hw, ser_in_waiting, ovl, idle, sess,
                   exit_cause>>

\* remove_overlay(prev_overlay), line 206
RemoveLast ==
    /\ pc = "rm_last"
    /\ overlays' = remove_overlay(prev_overlay)
    /\ pc' = "done_show"
    /\ UNCHANGED <<cfg, clock, ticks, hw, ser_in_waiting, next_id, overlay_1,
                   overlay_2, prev_overlay, this_overlay, idle, sess, exit_cause>>
    /\ remove_ok' = remove_overlay_ok(prev_overlay)
    /\ UNCHANGED returned

\* overlay_image(finished_image, 20), line 211
AllDoneShow == ShowTimed("done_show", Asset("/assets/all_done.png"), "done_hide")

\* variant: the exit button is looked at when the all-done overlay goes
AllDoneHideOrExit ==
    /\ IF exit_edge
          THEN /\ pc = "done_hide"
               /\ pc' = "finally"
               /\ exit_cause' = "exit_button"
               /\ UNCHANGED <<cfg, clock, ticks, hw, ser_in_waiting, ovl, idle>>
          ELSE HideTimed("done_hide", AllDoneDuration, "test_exit")
    /\ UNCHANGED sess

AllDoneHide ==
    /\ HideTimed("done_hide", AllDoneDuration, "test_exit")
    /\ UNCHANGED sess

\* variant: no break, the loop goes on after a test run
TestExitNoBreak ==
    /\ pc = "test_exit"
    /\ pc' = "again_1"
    /\ UNCHANGED <<cfg, clock, ticks, hw, ser_in_waiting, ovl, idle, sess,
                   exit_cause>>

\* lines 279-281: a test run ends main() here
TestExit ==
    /\ pc = "test_exit"
    /\ IF TESTMODE_AUTOPRESS_BUTTON
          THEN pc' = "finally" /\ exit_cause' = "autopress"
          ELSE pc' = "again_1" /\ exit_cause' = exit_cause
    /\ UNCHANGED <<cfg, clock, ticks, hw, ser_in_waiting, ovl, idle, sess>>

\* overlay_1 = overlay_image(intro_image_1, 0, 3), line 284
ShowIntro1Again ==
    /\ pc = "again_1"
    /\ overlays' = add_overlay(Asset("/assets/intro_1.png"), IntroLayer1)
    /\ overlay_1' = next_id
    /\ next_id' = next_id + 1
    /\ pc' = "again_2"
    /\ UNCHANGED <<cfg, clock, ticks, hw, ser_in_waiting, overlay_2, prev_overlay,
                   this_overlay, idle, sess, exit_cause>>
    /\ returned' = next_id
    /\ UNCHANGED remove_ok

\* overlay_2 = overlay_image(intro_image_2, 0, 4), line 285
ShowIntro2Again ==
    /\ pc = "again_2"
    /\ overlays' = add_overlay(Asset("/assets/intro_2.png"), IntroLayer2)
    /\ overlay_2' = next_id
    /\ next_id' = next_id + 1
    /\ pc' = "ser_reset"
    /\ UNCHANGED <<cfg, clock, ticks, hw, ser_in_waiting, overlay_1, prev_overlay,
                   this_overlay, idle, sess, exit_cause>>
    /\ returned' = next_id
    /\ UNCHANGED remove_ok

\* variant: the bytes received during the session stay in the buffer
SerialResetSkipped ==
    /\ pc = "ser_reset"
    /\ none_polls' = 0
    /\ pc' = "wait_edge"
    /\ UNCHANGED <<cfg, clock, ticks, hw, ser_in_waiting, ovl, i, is_pressed,
                   exit_button, exit_edge, sess, exit_cause>>

\* ser.reset_input_buffer(), line 287, and back to the top of the loop
SerialReset ==
    /\ pc = "ser_reset"
    /\ ser_in_waiting' = 0
    /\ none_polls' = 0
    /\ pc' = "wait_edge"
    /\ UNCHANGED <<cfg, clock, ticks, hw, ovl, i, is_pressed, exit_button,
                   exit_edge, sess, exit_cause>>

\* ------------------------------------------------ __main__, lines 289-302
\* an exception or a KeyboardInterrupt inside main(): lines 293-297 print and
\* fall through to the finally block
Raise ==
    /\ pc \in MainPcs
    /\ pc' = "finally"
    /\ \E c \in {"interrupt", "failure"} : exit_cause' = c
    /\ UNCHANGED <<cfg, clock, ticks, hw, ser_in_waiting, ovl, idle, sess>>

\* the finally block, lines 299-302; closing the camera ends its overlays
Teardown ==
    /\ pc = "finally"
    /\ overlays' = {}
    /\ preview' = FALSE
    /\ camera_dev' = "released"
    /\ camera_closes' = camera_closes + 1
    /\ gpio' = "released"
    /\ gpio_cleanups' = gpio_cleanups + 1
    /\ pc' = "done"
    /\ UNCHANGED <<cfg, clock, ticks, serial_port, ser_in_waiting, next_id,
                   overlay_1, overlay_2, prev_overlay, this_overlay, idle, sess,
                   exit_cause>>
    /\ UNCHANGED <<returned, remove_ok>>

Next ==
    \/ GpioSetup \/ CameraSetup \/ SerialSetup \/ SetupFail \/ SerialArrive \/ PressExit
    \/ StartPreview \/ ShowIntro1 \/ ShowIntro2
    \/ WaitForEdges \/ Dispatch
    \/ GetBase \/ RemoveIntro2 \/ RemoveIntro1 \/ PrepShow \/ PrepHide
    \/ Makedirs \/ MakedirsError \/ Countdown \/ ClearText \/ Capture \/ FlashShow \/ FlashHide
    \/ ProcessingShow \/ FrameShow \/ FrameSwap \/ RemoveLast
    \/ AllDoneShow \/ AllDoneHide \/ TestExit
    \/ ShowIntro1Again \/ ShowIntro2Again \/ SerialReset
    \/ Raise \/ Teardown

Spec == Init /\ [][Next]_vars

\* ------------------------------------------------------------------
\* get_base_filename_for_images on its own: the program sits at line 267
\* in any install directory, at any second
InitNamer ==
    /\ pc = "get_base"
    /\ TESTMODE_AUTOPRESS_BUTTON = FALSE /\ TESTMODE_FAST = FALSE
    /\ total_pics = ConfiguredTotalPics(TESTMODE_FAST, MaxPics)
    /\ prep_delay = ConfiguredPrepDelay(TESTMODE_FAST)
    /\ REAL_PATH \in Locations
    /\ clock \in StartClock..(StartClock + MaxNamerClock)
    /\ ticks = 0
    /\ gpio = "open" /\ camera_dev = "open" /\ serial_port = "open"
    /\ preview = TRUE
    /\ camera_closes = 0 /\ gpio_cleanups = 0
    /\ ser_in_waiting = 0
    /\ overlays = {[id |-> 1, image |-> Asset("/assets/intro_1.png"),
                    layer |-> IntroLayer1, alpha |-> OpaqueAlpha],
                   [id |-> 2, image |-> Asset("/assets/intro_2.png"),
                    layer |-> IntroLayer2, alpha |-> OpaqueAlpha]}
    /\ next_id = 3
    /\ overlay_1 = 1 /\ overlay_2 = 2
    /\ prev_overlay = NoOverlay /\ this_overlay = NoOverlay
    /\ returned = 2 /\ remove_ok = TRUE
    /\ i = 0 /\ is_pressed = "channel" /\ exit_button = None /\ none_polls = 0
    /\ exit_edge = FALSE
    /\ filename_prefix = <<>> /\ photo_number = 0 /\ counter = 0
    /\ annotate_text = <<>>
    /\ dirs = {} /\ files = {} /\ captured = <<>> /\ sessions = <<>>
    /\ exit_cause = None

SpecNamer == InitNamer /\ [][GetBase]_vars

\* =================================================================
\* Properties
\* =================================================================
Range(q) == {q[k] : k \in 1..Len(q)}
InDir(f, d) == Len(f) > Len(d) /\ SubSeq(f, 1, Len(d)) = d
ProcessEnded == pc \in {"done", "aborted"}
Raised == exit_cause \in {"interrupt", "failure", "oserror"}

\* the path <sessionDir>/<k>of<N>.jpg, written out token by token
ExpectedPath(dir, k, n) == dir \o <<"/", Digits[k + 1], "of", Digits[n + 1], ".jpg">>

C2_ExitPrecedence ==
    [][(/\ pc = "dispatch"
        /\ pc' # pc
        /\ exit_button # None
        /\ (is_pressed # None \/ ser_in_waiting > 0 \/ TESTMODE_AUTOPRESS_BUTTON))
       => /\ pc' = "finally"
          /\ exit_cause' # "autopress"
          /\ UNCHANGED <<sessions, filename_prefix, overlays, files, captured,
                         ser_in_waiting>>]_vars

C2_Witness ==
    /\ pc = "finally"
    /\ exit_cause = "exit_button"
    /\ exit_button # None
    /\ is_pressed # None
    /\ ser_in_waiting > 0
    /\ TESTMODE_AUTOPRESS_BUTTON

\* C3: when the process has ended, whichever way, the camera and the GPIO
\* lines that were acquired have each been released exactly once.
C3_ReleasedExactlyOnce ==
    ProcessEnded =>
        /\ camera_dev # "unset" => camera_dev = "released" /\ camera_closes = 1
        /\ gpio # "unset" => gpio = "released" /\ gpio_cleanups = 1

\* the logical role of an overlay, from the image it shows
Role(o) ==
    LET last == o.image[Len(o.image)]
    IN  CASE last = "/assets/intro_1.png" -> "intro_A"
          [] last = "/assets/intro_2.png" -> "intro_B"
          [] last = "/assets/get_ready.png" -> "get_ready"
          [] last = "/assets/white.png" -> "flash"
          [] last = "/assets/processing.png" -> "processing"
          [] last = "/assets/all_done.png" -> "all_done"
          [] OTHER -> "playback_frame"
Roles == {"intro_A", "intro_B", "get_ready", "flash", "processing", "all_done",
          "playback_frame"}
Live(r) == {o \in overlays : Role(o) = r}
IsLive(h) == \E o \in overlays : o.id = h
Shown(h) == CHOOSE o \in overlays : o.id = h

\* C4, as claimed: at most one live overlay per logical role at any instant, so
\* never two playback frames at once.
C4_OneLivePerRole == \A r \in Roles : Cardinality(Live(r)) <= 1

\* C4, amended: at most one live overlay for every role but the playback
\* frame; of playback frames at most two are live, and two only between the
\* addition of photo k and the removal of photo k-1 that follows it.
C4_OnePerRoleTwoFramesInCrossfade ==
    /\ \A r \in Roles \ {"playback_frame"} : Cardinality(Live(r)) <= 1
    /\ Cardinality(Live("playback_frame")) <= 2
    /\ Cardinality(Live("playback_frame")) = 2 =>
          /\ pc \in {"frame_swap", "finally"}
          /\ photo_number >= 2
          /\ Live("playback_frame") = {Shown(prev_overlay), Shown(this_overlay)}
          /\ Shown(prev_overlay).image
                = ExpectedPath(filename_prefix, photo_number - 1, total_pics)
          /\ Shown(this_overlay).image
                = ExpectedPath(filename_prefix, photo_number, total_pics)

C4_Witness ==
    /\ pc = "frame_swap"
    /\ Cardinality(Live("playback_frame")) = 2

\* C5: from the processing overlay until the last photo's overlay is removed a
\* playback overlay is live at every instant: the overlay of photo k is added
\* while the one shown before it (processing for k = 1, photo k-1 otherwise) is
\* still live, and only then is that one removed.
C5_NoGapInPlayback ==
    /\ pc \in {"frame_show", "frame_swap", "rm_last"} =>
          /\ IsLive(prev_overlay)
          /\ Role(Shown(prev_overlay)) \in {"processing", "playback_frame"}
    /\ pc = "frame_show" =>
          Shown(prev_overlay).image =
             IF photo_number = 1 THEN Asset("/assets/processing.png")
             ELSE ExpectedPath(filename_prefix, photo_number - 1, total_pics)
    /\ pc = "frame_swap" =>
          /\ IsLive(this_overlay)
          /\ this_overlay # prev_overlay
          /\ Shown(this_overlay).image
                = ExpectedPath(filename_prefix, photo_number, total_pics)
    /\ pc = "rm_last" =>
          Shown(prev_overlay).image
             = ExpectedPath(filename_prefix, total_pics, total_pics)

C5_Witness ==
    /\ pc = "frame_swap"
    /\ photo_number = 2
    /\ IsLive(prev_overlay)
    /\ IsLive(this_overlay)
    /\ Role(Shown(prev_overlay)) = "playback_frame"

\* a poll cycle that ended in None: lines 253-264 ran
NonePoll == pc = "dispatch" /\ pc' = "wait_edge"
Alpha2 == Shown(overlay_2).alpha

\* C6, as claimed: in every Idle period, the first and each later one, the 2nd
\* None poll since the period was entered makes overlay_2 opaque, the 4th
\* makes it transparent and sets the counter to 0, and no other None poll
\* changes overlay_2's alpha.
C6_BlinkCountedPerIdlePeriod ==
    [][NonePoll =>
         /\ none_polls' % (2 * blink_speed) = blink_speed => Alpha2' = OpaqueAlpha
         /\ none_polls' % (2 * blink_speed) = 0 => Alpha2' = 0 /\ i' = 0
         /\ none_polls' % blink_speed # 0 => Alpha2' = Alpha2]_vars

\* C6, amended: the None polls are counted by the blink counter, which is 0
\* at program start, is set back to 0 only by the None poll that raises it to
\* 4, and is carried unchanged through a session into the next Idle period.
\* The None poll that raises it to 2 makes overlay_2 opaque, the one that
\* raises it to 4 makes it transparent, no other None poll changes the alpha;
\* in the first Idle period these are the 2nd and the 4th None poll.
C6_BlinkCountedByCounter ==
    /\ [](pc \in {"start_preview", "intro_1", "intro_2"} => i = 0)
    /\ [](pc \in IdlePcs /\ sessions = <<>> => i = none_polls % (2 * blink_speed))
    /\ [][NonePoll =>
            /\ i + 1 = blink_speed => Alpha2' = OpaqueAlpha /\ i' = i + 1
            /\ i + 1 = 2 * blink_speed => Alpha2' = 0 /\ i' = 0
            /\ i + 1 \notin {blink_speed, 2 * blink_speed} =>
                  overlays' = overlays /\ i' = i + 1]_vars
    /\ [][~NonePoll => i' = i]_vars

C6_Witness ==
    /\ pc = "wait_edge"
    /\ Len(sessions) = 1
    /\ none_polls = 3
    /\ i = 0
    /\ Alpha2 = 0

C8_AutoPressExactlyOneSession ==
    TESTMODE_AUTOPRESS_BUTTON /\ pc = "done" /\ ~Raised =>
        Len(sessions) = 1 /\ Len(captured) = total_pics

\* C8, amended: with the auto-press flag set a run has at most one session
\* and never polls again after it; it has exactly one, run to completion,
\* unless the exit button fires in the first poll cycle (Exit goes first, and
\* the run then has none) or an exception or interrupt ends it.
C8_AutoPressAtMostOneSession ==
    TESTMODE_AUTOPRESS_BUTTON =>
        /\ Len(sessions) <= 1
        /\ none_polls = 0
        /\ Len(sessions) = 1 => pc \in SessionPcs \cup {"finally", "done"}
        /\ pc \notin {"again_1", "again_2", "ser_reset"}
        /\ exit_cause = "autopress" =>
              /\ Len(sessions) = 1
              /\ captured = [k \in 1..total_pics |->
                                ExpectedPath(filename_prefix, k, total_pics)]
        /\ exit_cause = "exit_button" => sessions = <<>> /\ files = {}
        /\ pc = "done" /\ sessions = <<>> => exit_cause \in {"exit_button", "interrupt", "failure"}

C8_Witness ==
    /\ TESTMODE_AUTOPRESS_BUTTON
    /\ pc = "done"
    /\ exit_cause = "exit_button"
    /\ sessions = <<>>

\* C9: between the acceptance of a Capture and the return to Idle no button is
\* waited on, the serial buffer is not read, and a push of the exit button
\* does not end the program: the session goes on to its next step, through
\* all total_pics captures and the playback.
C9_NoExitDuringSession ==
    /\ [][(pc \in SessionPcs) =>
            /\ is_pressed' = is_pressed
            /\ exit_button' = exit_button
            /\ (pc # "ser_reset") => (ser_in_waiting' >= ser_in_waiting)
            /\ pc' \in SessionPcs \cup {"wait_edge", "finally"}
            /\ (pc' = "finally") =>
                  (exit_cause' = "autopress" \/ Raised')
            /\ (pc' = "wait_edge") => (pc = "ser_reset")]_vars
    /\ [](pc \in {"test_exit", "again_1", "again_2", "ser_reset"} =>
            Len(captured) = total_pics)

C9_Witness ==
    /\ pc = "ser_reset"
    /\ exit_edge
    /\ Len(captured) = total_pics
    /\ total_pics = 2

\* C10: no two sessions of one run have the same base name.
C10_BaseNamesDiffer ==
    \A a, b \in 1..Len(sessions) : a # b => sessions[a] # sessions[b]

C10_Witness ==
    /\ Len(sessions) = 2
    /\ pc = "rm_overlay_2"
    /\ clock >= StartClock + FastPrepDelay + 3 + 1 + AllDoneDuration

\* C11: playback shows the files this session captured, in index order: the
\* k-th playback frame is given the path of the k-th capture of the same
\* session, a file that capture wrote, and never a path of another session.
C11_PlaybackShowsCaptured ==
    /\ pc \in {"frame_show", "frame_swap"} =>
          /\ Len(captured) = total_pics
          /\ photo_number \in 1..total_pics
    /\ pc = "frame_swap" => Shown(this_overlay).image = captured[photo_number]
    /\ \A o \in Live("playback_frame") :
          /\ \E k \in 1..Len(captured) : o.image = captured[k]
          /\ o.image \in files
          /\ InDir(o.image, filename_prefix)
          /\ \A n \in 1..Len(sessions) :
                sessions[n] # filename_prefix => ~InDir(o.image, sessions[n])

C11_Witness ==
    /\ pc = "frame_swap"
    /\ Len(sessions) = 2
    /\ photo_number = 2
    /\ Shown(this_overlay).image = captured[2]

\* C12: when os.makedirs fails with an error other than "already exists", the
\* photo it was called for and the later ones are not captured, nothing is
\* played back, the controller does not go back to Idle, and the program ends
\* through the teardown; a capture is made only with the directory in place.
C12_DirectoryErrorIsFatal ==
    /\ [](exit_cause = "oserror" =>
            /\ pc \in {"finally", "done"}
            /\ Len(captured) = photo_number - 1
            /\ {f \in files : InDir(f, filename_prefix)} = Range(captured)
            /\ Live("processing") \cup Live("playback_frame") \cup Live("all_done")
                  \cup Live("intro_A") \cup Live("intro_B") = {}
            /\ pc = "done" => camera_closes = 1 /\ gpio_cleanups = 1)
    /\ [](pc \in {"countdown", "clear_text", "capture", "flash_show", "flash_hide"}
            => filename_prefix \in dirs)
    /\ [][(pc = "finally" /\ pc' # pc) =>
            /\ pc' = "done"
            /\ camera_closes' = 1 /\ gpio_cleanups' = 1
            /\ UNCHANGED <<captured, files, sessions, none_polls>>]_vars

C12_Witness ==
    /\ pc = "done"
    /\ exit_cause = "oserror"
    /\ photo_number = 2
    /\ Len(captured) = 1
    /\ camera_closes = 1

TimedHidePcs == {"prep_hide", "flash_hide", "done_hide"}
PersistentShowPcs == {"intro_1", "intro_2", "again_1", "again_2", "processing",
                      "frame_show"}
LiveIds == {o.id : o \in overlays}

\* C13: overlay_image with a duration > 0 returns -1 and the overlay it added
\* is gone when it returns; with no duration (0, False, or none given) it
\* returns the handle of the overlay it added, live at the return, and that
\* overlay stays live until the handle is passed to remove_overlay (or the
\* camera is closed in the teardown).
C13_OverlayImageReturn ==
    /\ [][(pc \in TimedHidePcs /\ pc' \notin {pc, "finally"}) =>
            /\ next_id - 1 \in LiveIds
            /\ returned' = NoOverlay
            /\ LiveIds' = LiveIds \ {next_id - 1}]_vars
    /\ [][(pc \in PersistentShowPcs /\ pc' \notin {pc, "finally"}) =>
            /\ returned' = next_id
            /\ returned' # NoOverlay
            /\ LiveIds' = LiveIds \cup {returned'}
            /\ returned' \notin LiveIds]_vars
    /\ [][\A h \in LiveIds \ LiveIds' :
            \/ pc = "rm_overlay_2" /\ h = overlay_2
            \/ pc = "rm_overlay_1" /\ h = overlay_1
            \/ pc \in {"frame_swap", "rm_last"} /\ h = prev_overlay
            \/ pc \in TimedHidePcs /\ h = next_id - 1
            \/ pc = "finally"]_vars
    /\ [](pc \in TimedHidePcs => Cardinality(overlays) >= 1)

C13_Witness ==
    /\ pc = "makedirs"
    /\ photo_number = 1
    /\ returned = NoOverlay
    /\ overlays = {}
    /\ next_id > 3

\* C14: the base path of every session lies under <program location>/photos/,
\* wherever the program is installed.
C14_BaseUnderPhotos ==
    \A n \in 1..Len(sessions) : InDir(sessions[n], REAL_PATH \o <<"/photos/">>)

BeforeCapturePcs == {"makedirs", "countdown", "clear_text", "capture"}
AfterCapturePcs == {"flash_show", "flash_hide"}
PlaybackPcs == {"processing", "frame_show", "frame_swap", "rm_last", "done_show",
                "done_hide"}
Intros == Live("intro_A") \cup Live("intro_B")

\* the steps of a session in their order, up to the end of the playback
SessionStepsInOrder ==
    /\ [](pc \in SessionPcs \ {"get_base"} =>
            /\ sessions # <<>>
            /\ filename_prefix = sessions[Len(sessions)])
    /\ [](pc = "get_base" => Cardinality(Intros) = 2 /\ Len(sessions) < MaxSessions)
    /\ [](pc = "rm_overlay_2" => Cardinality(Intros) = 2 /\ captured = <<>>)
    /\ [](pc = "rm_overlay_1" => Intros = Live("intro_A") /\ Cardinality(Intros) = 1)
    /\ [](pc \in {"prep_show", "prep_hide"} \cup BeforeCapturePcs \cup AfterCapturePcs
               \cup PlaybackPcs \cup {"test_exit", "again_1"} => Intros = {})
    /\ [](pc = "prep_show" => overlays = {} /\ captured = <<>>)
    /\ [](pc = "prep_hide" => overlays = Live("get_ready") /\ captured = <<>>)
    /\ [][(pc = "prep_hide" /\ pc' = "makedirs") =>
            clock' = clock + prep_delay /\ photo_number' = 1 /\ overlays' = {}]_vars
    /\ [](pc \in BeforeCapturePcs \cup AfterCapturePcs =>
            /\ photo_number \in 1..total_pics
            /\ Len(captured) = IF pc \in BeforeCapturePcs THEN photo_number - 1
                               ELSE photo_number
            /\ \A k \in 1..Len(captured) :
                  captured[k] = ExpectedPath(filename_prefix, k, total_pics)
            /\ Live("get_ready") \cup Live("processing") \cup Live("playback_frame")
                  \cup Live("all_done") = {})
    /\ [][(pc = "flash_hide" /\ pc' \notin {pc, "finally"}) =>
            IF photo_number < total_pics
               THEN pc' = "makedirs" /\ photo_number' = photo_number + 1
               ELSE pc' = "processing"]_vars
    /\ [](pc \in PlaybackPcs \cup {"test_exit", "again_1", "again_2", "ser_reset"} =>
            /\ Len(captured) = total_pics
            /\ photo_number \in 1..total_pics)
    /\ [](pc \in {"test_exit", "again_1"} => overlays = {})
    /\ [](pc = "again_2" => overlays = Live("intro_A") /\ Cardinality(overlays) = 1)
    /\ [](pc = "ser_reset" => overlays = Intros /\ Cardinality(overlays) = 2)
    /\ [][(pc = "ser_reset" /\ pc' \notin {pc, "finally"}) => pc' = "wait_edge"]_vars

\* C15, as claimed: every accepted Capture is followed by the same steps in
\* the same order, and after the playback the two intro overlays are added
\* again and polling resumes.
C15_SameStepsThenIdle ==
    /\ SessionStepsInOrder
    /\ [][(pc = "test_exit" /\ pc' # pc /\ ~Raised') => pc' = "again_1"]_vars

\* C15, amended: every accepted Capture is followed by the same steps in the
\* same order (base name, both intro overlays removed, get-ready for
\* prep_delay, the capture step for photo 1..total_pics with photo_number
\* starting at 1, playback); after the playback the two intro overlays are
\* added again and polling resumes, unless the auto-press flag is set: then the
\* program ends after the playback. An exception or interrupt ends the
\* sequence where it strikes.
C15_SameStepsThenIdleOrEnd ==
    /\ SessionStepsInOrder
    /\ [][(pc = "test_exit" /\ pc' # pc /\ ~Raised') =>
            IF TESTMODE_AUTOPRESS_BUTTON
               THEN pc' = "finally" /\ overlays' = {}
               ELSE pc' = "again_1"]_vars

C15_Witness ==
    /\ pc = "ser_reset"
    /\ Len(sessions) = 2
    /\ Len(captured) = total_pics
    /\ total_pics = 2
    /\ Cardinality(Intros) = 2

\* C16: for each photo the countdown text is 3, then 2, then 1, each for one
\* second; the text is cleared; the capture is invoked with the text empty and
\* no flash overlay live; then the flash overlay is shown and removed.
C16_CountdownClearCaptureFlash ==
    /\ [][(pc = "makedirs" /\ pc' = "countdown") => counter' = 3]_vars
    /\ [](pc = "countdown" =>
            /\ counter \in 1..3
            /\ counter < 3 => annotate_text = str(counter + 1))
    /\ [][(pc = "countdown" /\ counter' # counter) =>
            /\ annotate_text' = str(counter)
            /\ clock' = clock + 1
            /\ counter' = counter - 1
            /\ pc' = IF counter > 1 THEN "countdown" ELSE "clear_text"]_vars
    /\ [](pc = "clear_text" => annotate_text = str(1) /\ counter = 0)
    /\ [][(pc = "clear_text" /\ pc' \notin {pc, "finally"}) =>
            pc' = "capture" /\ captured' = captured]_vars
    /\ [](pc \in BeforeCapturePcs => Live("flash") = {})
    /\ [](pc = "capture" => annotate_text = <<>>)
    /\ [][(pc = "capture" /\ pc' \notin {pc, "finally"}) =>
            /\ pc' = "flash_show"
            /\ captured' = Append(captured, PhotoFilename(filename_prefix, photo_number))
            /\ annotate_text' = <<>>
            /\ overlays' = {}]_vars
    /\ [][(pc = "flash_show" /\ pc' \notin {pc, "finally"}) =>
            /\ pc' = "flash_hide"
            /\ overlays' = Live("flash")'
            /\ Cardinality(overlays') = 1]_vars
    /\ [][(pc = "flash_hide" /\ pc' \notin {pc, "finally"}) =>
            /\ overlays' = {}
            /\ captured' = captured]_vars

C16_Witness ==
    /\ pc = "capture"
    /\ photo_number = 2
    /\ Len(sessions) = 2
    /\ annotate_text = <<>>
    /\ Live("flash") = {}
    /\ clock >= StartClock + 6

\* C17: a poll that finds the serial buffer non-empty and no Exit empties the
\* buffer and yields Capture; a session starts only from a poll; and between
\* the end of a session and the next poll the buffer is emptied, so bytes that
\* arrived during the session start no session.
C17_SerialBatchStartsOneSession ==
    /\ [][(pc = "dispatch" /\ ser_in_waiting > 0 /\ exit_button = None
              /\ pc' \notin {pc, "finally"}) =>
            /\ pc' = "get_base"
            /\ is_pressed' = "True"
            /\ ser_in_waiting' = 0]_vars
    /\ [][(pc' = "get_base" /\ pc # "get_base") =>
            pc = "dispatch" /\ ser_in_waiting' = 0]_vars
    /\ [][(pc = "dispatch" /\ pc' = "wait_edge") =>
            ser_in_waiting = 0 /\ is_pressed = None]_vars
    /\ [][(pc' = "wait_edge" /\ pc \in SessionPcs \cup {"test_exit", "again_1", "again_2",
                                                      "ser_reset"}) =>
            pc = "ser_reset" /\ ser_in_waiting' = 0]_vars
    /\ [][(pc = "ser_reset" /\ pc' \notin {pc, "finally"}) =>
            pc' = "wait_edge" /\ ser_in_waiting' = 0]_vars

C17_Witness ==
    /\ pc = "ser_reset"
    /\ is_pressed = "True"
    /\ ser_in_waiting > 0
    /\ Len(sessions) = 1

\* C18: a poll cycle that yields Capture modifies neither the blink counter
\* nor the secondary overlay's alpha, whatever the counter value k in
\* 0..2*blink_speed-1, and the controller goes on to remove the intro overlays
\* without a blink step in between.
C18_CaptureSkipsBlink ==
    /\ [](pc \in {"dispatch", "get_base"} => i \in 0..(2 * blink_speed - 1))
    /\ [][(pc = "dispatch" /\ pc' = "get_base") =>
            /\ i' = i
            /\ overlays' = overlays
            /\ overlay_2' = overlay_2
            /\ Alpha2' = Alpha2]_vars
    /\ [][(pc = "get_base" /\ pc' \notin {pc, "finally"}) =>
            /\ pc' = "rm_overlay_2"
            /\ i' = i
            /\ overlays' = overlays]_vars
    /\ [][(pc = "rm_overlay_2" /\ pc' \notin {pc, "finally"}) =>
            /\ pc' = "rm_overlay_1"
            /\ i' = i
            /\ overlays' = camera_remove_overlay(overlay_2)]_vars

C18_Witness ==
    /\ pc = "rm_overlay_2"
    /\ i = 2 * blink_speed - 1
    /\ Alpha2 = OpaqueAlpha
    /\ is_pressed = "channel"

\* C19: every removal request that reached camera.remove_overlay so far named a
\* live handle, and the handle the next removal will name is live and is not
\* the "no overlay" sentinel: nothing is removed twice or before it was added.
C19_RemovalsTargetLive ==
    /\ remove_ok
    /\ pc = "rm_overlay_2" => overlay_2 # NoOverlay /\ IsLive(overlay_2)
    /\ pc = "rm_overlay_1" =>
          overlay_1 # NoOverlay /\ IsLive(overlay_1) /\ ~IsLive(overlay_2)
    /\ pc = "frame_swap" =>
          /\ Truthy(prev_overlay)
          /\ prev_overlay # NoOverlay
          /\ prev_overlay # this_overlay
          /\ IsLive(prev_overlay)
    /\ pc = "rm_last" => prev_overlay # NoOverlay /\ IsLive(prev_overlay)
    /\ pc \in TimedHidePcs => IsLive(next_id - 1)
    /\ \A h \in LiveIds : h \in 0..(next_id - 1)

C19_Witness ==
    /\ pc = "done_show"
    /\ Len(sessions) = 2
    /\ total_pics = 2
    /\ remove_ok
    /\ overlays = {}

\* C20: whenever the controller polls input in Idle the live overlays are
\* exactly the two intro overlays created for this Idle period, intro 1 on
\* layer 3 and intro 2 on layer 4; and at the end of the playback, before they
\* are created again, no overlay is live.
C20_NoOverlayLeak ==
    /\ pc \in IdlePcs =>
          /\ overlay_1 = next_id - 2
          /\ overlay_2 = next_id - 1
          /\ IsLive(overlay_1) /\ IsLive(overlay_2)
          /\ overlays = {Shown(overlay_1), Shown(overlay_2)}
          /\ Shown(overlay_1).image = Asset("/assets/intro_1.png")
          /\ Shown(overlay_1).layer = IntroLayer1
          /\ Shown(overlay_2).image = Asset("/assets/intro_2.png")
          /\ Shown(overlay_2).layer = IntroLayer2
    /\ pc \in {"test_exit", "again_1"} => overlays = {}

C20_Witness ==
    /\ pc = "dispatch"
    /\ Len(sessions) = 1
    /\ none_polls >= blink_speed
    /\ overlay_1 > 2
    /\ Cardinality(overlays) = 2
====
